---- MODULE Spec2Model ----
(***************************************************************************)
(* Model of src/utils/pdfDashboard.js: the table extraction from the text  *)
(* of a PDF (extractTable), the rendering of the table as an HTML document *)
(* (generateHTML), the storing of the document (saveHTMLToFile) and the    *)
(* exported pipeline pdfTableToHTMLDashboard; and of the upload and the    *)
(* comparison handlers of src/frontend/src/App.jsx.                        *)
(*                                                                         *)
(* Texts are TLA+ strings; the character at position i of s is             *)
(* SubSeq(s, i, i).  A cell of a table is a record: Str(s) for a string    *)
(* and a "number" record for a JavaScript number.                          *)
(***************************************************************************)
EXTENDS Integers, Sequences, FiniteSets, TLC

\* ------------------------------------------------------------------------
\* Bounds of the model
\* ------------------------------------------------------------------------

\* longest text enumerated over TextAlphabet
MaxTextLen == 6

\* longest cell token enumerated over TokenAlphabet
MaxTokLen == 3

\* the invocations of pdfTableToHTMLDashboard that run concurrently
NumProcs == 2

\* the files the user selects in a session of the page
MaxFiles == 3

\* the comparisons the user starts in a session of the page
MaxTabs == 2

\* ------------------------------------------------------------------------
\* Strings
\* ------------------------------------------------------------------------

At(s, i) == SubSeq(s, i, i)

\* s.slice(from - 1, to) with 1-based inclusive positions
Slice(s, from, to) == IF from > to THEN "" ELSE SubSeq(s, from, to)

\* the characters the regular expression class \s and String.prototype.trim
\* treat as white space, as far as they occur in the model
WhiteSpace == {" ", "\t", "\n", "\r", "\f"}

IsSpace(c) == c \in WhiteSpace

Digits == {"0", "1", "2", "3", "4", "5", "6", "7", "8", "9"}

RECURSIVE SkipSpaceLeft(_, _)
SkipSpaceLeft(s, i) ==
    IF i <= Len(s) /\ IsSpace(At(s, i)) THEN SkipSpaceLeft(s, i + 1) ELSE i

RECURSIVE SkipSpaceRight(_, _)
SkipSpaceRight(s, j) ==
    IF j >= 1 /\ IsSpace(At(s, j)) THEN SkipSpaceRight(s, j - 1) ELSE j

\* String.prototype.trim
Trim(s) == Slice(s, SkipSpaceLeft(s, 1), SkipSpaceRight(s, Len(s)))

\* String.prototype.split with a one-character string separator
RECURSIVE SplitOn(_, _, _, _)
SplitOn(s, sep, p, q) ==
    IF q > Len(s) THEN <<Slice(s, p, Len(s))>>
    ELSE IF At(s, q) = sep
         THEN <<Slice(s, p, q - 1)>> \o SplitOn(s, sep, q + 1, q + 1)
         ELSE SplitOn(s, sep, p, q + 1)

SplitLines(s) == SplitOn(s, "\n", 1, 1)

\* Array.prototype.join
RECURSIVE Join(_, _)
Join(parts, sep) ==
    IF Len(parts) = 0 THEN ""
    ELSE IF Len(parts) = 1 THEN parts[1]
    ELSE parts[1] \o sep \o Join(Tail(parts), sep)

\* ------------------------------------------------------------------------
\* The regular expression /\t|\s{2,}/
\* ------------------------------------------------------------------------

RECURSIVE SpaceRunEnd(_, _)
\* the position after the run of white space that starts at i
SpaceRunEnd(s, i) ==
    IF i <= Len(s) /\ IsSpace(At(s, i)) THEN SpaceRunEnd(s, i + 1) ELSE i

\* the position after the match of /\t|\s{2,}/ anchored at i, or 0 when the
\* expression does not match there: the alternative \t is tried first and
\* takes the single tab, \s{2,} is greedy
SeparatorEnd(s, i) ==
    IF i > Len(s) THEN 0
    ELSE IF At(s, i) = "\t" THEN i + 1
    ELSE IF SpaceRunEnd(s, i) >= i + 2 THEN SpaceRunEnd(s, i)
    ELSE 0

\* line.match(/\t|\s{2,}/) is not null
MatchesSeparator(s) == \E i \in 1..Len(s) : SeparatorEnd(s, i) # 0

\* String.prototype.split with the regular expression /\t|\s{2,}/, which
\* never matches the empty string
RECURSIVE SplitCells(_, _, _)
SplitCells(s, p, q) ==
    IF q > Len(s) THEN <<Slice(s, p, Len(s))>>
    ELSE IF SeparatorEnd(s, q) = 0 THEN SplitCells(s, p, q + 1)
    ELSE <<Slice(s, p, q - 1)>>
         \o SplitCells(s, SeparatorEnd(s, q), SeparatorEnd(s, q))

\* ------------------------------------------------------------------------
\* JavaScript numbers: Number(string), isNaN(string) and String(number)
\* ------------------------------------------------------------------------

\* A finite number is sign * mant * 10^exp with mant not divisible by 10
\* (zero is mant = 0, exp = 0, and -0 is not told from 0, as === does not);
\* the model stays within the range in which a double holds the decimal
\* literal exactly.
NaN == [kind |-> "NaN"]

Infinity(neg) == [kind |-> "number", inf |-> TRUE, neg |-> neg, mant |-> 0, exp |-> 0]

RECURSIVE Normalize(_, _, _)
Normalize(neg, mant, exp) ==
    IF mant = 0
    THEN [kind |-> "number", inf |-> FALSE, neg |-> FALSE, mant |-> 0, exp |-> 0]
    ELSE IF mant % 10 = 0 THEN Normalize(neg, mant \div 10, exp + 1)
    ELSE [kind |-> "number", inf |-> FALSE, neg |-> neg, mant |-> mant, exp |-> exp]

\* the number n
Num(n) == IF n < 0 THEN Normalize(TRUE, 0 - n, 0) ELSE Normalize(FALSE, n, 0)

\* the string s as a cell value
Str(s) == [kind |-> "string", text |-> s]

HexDigits == Digits \cup {"a", "b", "c", "d", "e", "f", "A", "B", "C", "D", "E", "F"}

DigitValue(c) ==
    CASE c = "0" -> 0 [] c = "1" -> 1 [] c = "2" -> 2 [] c = "3" -> 3
      [] c = "4" -> 4 [] c = "5" -> 5 [] c = "6" -> 6 [] c = "7" -> 7
      [] c = "8" -> 8 [] c = "9" -> 9
      [] c \in {"a", "A"} -> 10 [] c \in {"b", "B"} -> 11
      [] c \in {"c", "C"} -> 12 [] c \in {"d", "D"} -> 13
      [] c \in {"e", "E"} -> 14 [] c \in {"f", "F"} -> 15

RECURSIVE DigitRunEnd(_, _)
\* the position after the run of decimal digits that starts at i
DigitRunEnd(s, i) ==
    IF i <= Len(s) /\ At(s, i) \in Digits THEN DigitRunEnd(s, i + 1) ELSE i

RECURSIVE RadixValue(_, _, _)
\* the value of the digit string s in the given radix, acc being the value
\* of the digits already read
RadixValue(s, radix, acc) ==
    IF s = "" THEN acc
    ELSE RadixValue(Slice(s, 2, Len(s)), radix, acc * radix + DigitValue(At(s, 1)))

\* NonDecimalIntegerLiteral: 0x, 0o or 0b and at least one digit of the radix
NonDecimalRadix(s) ==
    IF Len(s) < 3 \/ At(s, 1) # "0" THEN 0
    ELSE IF At(s, 2) \in {"x", "X"} THEN 16
    ELSE IF At(s, 2) \in {"o", "O"} THEN 8
    ELSE IF At(s, 2) \in {"b", "B"} THEN 2
    ELSE 0

RadixDigits(radix) ==
    IF radix = 16 THEN HexDigits
    ELSE IF radix = 8 THEN {"0", "1", "2", "3", "4", "5", "6", "7"}
    ELSE {"0", "1"}

\* StrDecimalLiteral without its sign: Infinity, or digits with an optional
\* fraction (either side of the point may be empty, not both) and an optional
\* exponent part
UnsignedDecimal(s, neg) ==
    LET i1 == DigitRunEnd(s, 1)
        hasDot == i1 <= Len(s) /\ At(s, i1) = "."
        i2 == IF hasDot THEN DigitRunEnd(s, i1 + 1) ELSE i1
        intPart == Slice(s, 1, i1 - 1)
        fracPart == IF hasDot THEN Slice(s, i1 + 1, i2 - 1) ELSE ""
        hasExp == i2 <= Len(s) /\ At(s, i2) \in {"e", "E"}
        expNeg == i2 + 1 <= Len(s) /\ At(s, i2 + 1) = "-"
        i3 == IF i2 + 1 <= Len(s) /\ At(s, i2 + 1) \in {"+", "-"}
              THEN i2 + 2 ELSE i2 + 1
        i4 == DigitRunEnd(s, i3)
        expAbs == RadixValue(Slice(s, i3, i4 - 1), 10, 0)
        expVal == IF expNeg THEN 0 - expAbs ELSE expAbs
        mant == RadixValue(intPart \o fracPart, 10, 0)
    IN  IF s = "Infinity" THEN Infinity(neg)
        ELSE IF Len(intPart) + Len(fracPart) = 0 THEN NaN
        ELSE IF i2 > Len(s) THEN Normalize(neg, mant, 0 - Len(fracPart))
        ELSE IF hasExp /\ i4 > i3 /\ i4 > Len(s)
             THEN Normalize(neg, mant, expVal - Len(fracPart))
        ELSE NaN

\* Number(s), the conversion isNaN applies to its argument: white space
\* around the literal is ignored and the empty literal is 0
ToNumber(s) ==
    LET t == Trim(s)
        radix == NonDecimalRadix(t)
        body == Slice(t, 3, Len(t))
    IN  IF t = "" THEN Num(0)
        ELSE IF radix # 0
             THEN IF \A i \in 1..Len(body) : At(body, i) \in RadixDigits(radix)
                  THEN Normalize(FALSE, RadixValue(body, radix, 0), 0)
                  ELSE NaN
        ELSE IF At(t, 1) \in {"+", "-"}
             THEN UnsignedDecimal(Slice(t, 2, Len(t)), At(t, 1) = "-")
        ELSE UnsignedDecimal(t, FALSE)

\* isNaN(s)
IsNaN(s) == ToNumber(s) = NaN

DigitChar(d) ==
    CASE d = 0 -> "0" [] d = 1 -> "1" [] d = 2 -> "2" [] d = 3 -> "3"
      [] d = 4 -> "4" [] d = 5 -> "5" [] d = 6 -> "6" [] d = 7 -> "7"
      [] d = 8 -> "8" [] d = 9 -> "9"

RECURSIVE NatToString(_)
NatToString(n) ==
    IF n < 10 THEN DigitChar(n) ELSE NatToString(n \div 10) \o DigitChar(n % 10)

RECURSIVE Zeros(_)
Zeros(n) == IF n <= 0 THEN "" ELSE "0" \o Zeros(n - 1)

\* Number::toString(x) in radix 10: d are the digits of x, k their count and
\* x = 0.d * 10^n
NumberToString(x) ==
    LET d == NatToString(x.mant)
        k == Len(d)
        n == k + x.exp
        e == n - 1
        sign == IF x.neg THEN "-" ELSE ""
    IN  IF x.inf THEN sign \o "Infinity"
        ELSE IF x.mant = 0 THEN "0"
        ELSE IF k <= n /\ n <= 21 THEN sign \o d \o Zeros(n - k)
        ELSE IF 0 < n /\ n <= 21
             THEN sign \o Slice(d, 1, n) \o "." \o Slice(d, n + 1, k)
        ELSE IF -6 < n /\ n <= 0 THEN sign \o "0." \o Zeros(0 - n) \o d
        ELSE sign \o At(d, 1) \o (IF k = 1 THEN "" ELSE "." \o Slice(d, 2, k))
                  \o "e" \o (IF e < 0 THEN "-" \o NatToString(0 - e)
                                       ELSE "+" \o NatToString(e))

\* the text a template literal interpolates for a cell
CellText(cell) == IF cell.kind = "string" THEN cell.text ELSE NumberToString(cell)

\* ------------------------------------------------------------------------
\* extractTable, after the text of the PDF is known
\* ------------------------------------------------------------------------

\* the filter of the lines: non-blank after trimming and matching the
\* separator expression
IsTableLine(line) == Len(Trim(line)) > 0 /\ MatchesSeparator(line)

TableLines(text) == SelectSeq(SplitLines(text), IsTableLine)

\* lines.map(line => line.trim().split(/\t|\s{2,}/))
SplitRows(lines) == [i \in 1..Len(lines) |-> SplitCells(Trim(lines[i]), 1, 1)]

\* ConvertCell with the trimming left out
ConvertCellUntrimmed(value) ==
    IF ~IsNaN(value) /\ value # "" THEN ToNumber(value) ELSE Str(value)

\* ConvertCell with the test trimmed !== '' left out
ConvertCellEmptyAsZero(value) ==
    LET trimmed == Trim(value)
    IN  IF ~IsNaN(trimmed) THEN ToNumber(trimmed) ELSE Str(trimmed)

\* the conversion of one cell of a data row
ConvertCell(value) ==
    LET trimmed == Trim(value)
    IN  IF ~IsNaN(trimmed) /\ trimmed # "" THEN ToNumber(trimmed) ELSE Str(trimmed)

\* SameColumnCount with the comparison left out
AnyColumnCount(row, headers) == Len(row) >= 0 /\ Len(headers) >= 0

\* the test of the filter of the data rows
SameColumnCount(row, headers) == Len(row) = Len(headers)

\* rows.slice(1).filter(...).map(row => row.map(...))
ConvertRows(rows, headers) ==
    LET kept == SelectSeq(Tail(rows), LAMBDA row : SameColumnCount(row, headers))
    IN  [i \in 1..Len(kept) |-> [j \in 1..Len(kept[i]) |-> ConvertCell(kept[i][j])]]

\* TooFewLines with the limit off by one
NoLines(lines) == Len(lines) < 1

\* TooFewLines extended to the tables without a data row
TooFewLinesOrRows(lines) ==
    \/ Len(lines) < 2
    \/ LET rows == [i \in 1..Len(lines) |-> SplitCells(Trim(lines[i]), 1, 1)]
       IN  \A i \in 2..Len(rows) : Len(rows[i]) # Len(rows[1])

\* the check that throws "No table-like data found"
TooFewLines(lines) == Len(lines) < 2

NoTableMessage == "No table-like data found"

\* TableOf with the headers taken from the last line instead of the first
TableOfLastLine(text) ==
    LET rows == SplitRows(TableLines(text))
        headers == rows[Len(rows)]
    IN  [headers |-> headers, values |-> ConvertRows(rows, headers)]

\* the object extractTable returns for a text that has enough lines
TableOf(text) ==
    LET rows == SplitRows(TableLines(text))
        headers == rows[1]
    IN  [headers |-> headers, values |-> ConvertRows(rows, headers)]

\* ------------------------------------------------------------------------
\* generateHTML
\* ------------------------------------------------------------------------

HeaderCell(header) == "<th>" \o header \o "</th>"

DataCell(cell) == "<td>" \o CellText(cell) \o "</td>"

TableHeader(headers) ==
    "<tr>" \o Join([i \in 1..Len(headers) |-> HeaderCell(headers[i])], "") \o "</tr>"

DataRow(row) ==
    "<tr>" \o Join([j \in 1..Len(row) |-> DataCell(row[j])], "") \o "</tr>"

TableRows(values) == Join([i \in 1..Len(values) |-> DataRow(values[i])], "")

\* the text of the template before ${tableHeader}; "*" stands for the
\* pictograph of the heading, which is outside the character set of strings
DocumentHead ==
    "\n    <html>\n      <head>\n        <title>Dashboard</title>\n        <style>\n"
    \o "          table { border-collapse: collapse; width: 100%; font-family: Arial, sans-serif; }\n"
    \o "          th, td { border: 1px solid #ccc; padding: 8px; text-align: center; }\n"
    \o "          th { background-color: #eee; }\n"
    \o "        </style>\n      </head>\n      <body>\n"
    \o "        <h1>* PDF Table Dashboard</h1>\n        <table>"

DocumentTail == "</table>\n      </body>\n    </html>\n  "

GenerateHTMLOf(headers, values) ==
    DocumentHead \o TableHeader(headers) \o TableRows(values) \o DocumentTail

\* ------------------------------------------------------------------------
\* Paths
\* ------------------------------------------------------------------------

RECURSIVE LastSlash(_, _)
\* the position of the last "/" of path at or before i, 0 when there is none
LastSlash(path, i) ==
    IF i < 1 THEN 0 ELSE IF At(path, i) = "/" THEN i ELSE LastSlash(path, i - 1)

EndsWith(s, suffix) ==
    Len(suffix) <= Len(s) /\ Slice(s, Len(s) - Len(suffix) + 1, Len(s)) = suffix

\* path.basename(path, ext) for a path that does not end with "/"
Basename(path, ext) ==
    LET base == Slice(path, LastSlash(path, Len(path)) + 1, Len(path))
    IN  IF path = ext THEN ""
        ELSE IF EndsWith(base, ext) /\ Len(base) > Len(ext)
             THEN Slice(base, 1, Len(base) - Len(ext))
        ELSE base

\* __dirname of src/utils/pdfDashboard.js; /app stands for the place the
\* repository is installed at
Dirname == "/app/utils"

\* path.join(__dirname, '../dashboards')
DashboardDir == Slice(Dirname, 1, LastSlash(Dirname, Len(Dirname)) - 1) \o "/dashboards"

\* path.join(dashboardDir, `${filename}.html`)
OutputPathOf(filename) == DashboardDir \o "/" \o filename \o ".html"

\* ------------------------------------------------------------------------
\* The documents of the model
\* ------------------------------------------------------------------------

\* what fs.readFile finds at a path: nothing, bytes pdf-parse rejects, or a
\* PDF with a text layer
Absent == [kind |-> "absent"]

Corrupt == [kind |-> "corrupt"]

Pdf(text) == [kind |-> "pdf", text |-> text]

RECURSIVE StringsUpTo(_, _)
\* the strings over alphabet of length at most n
StringsUpTo(alphabet, n) ==
    IF n = 0 THEN {""}
    ELSE LET shorter == StringsUpTo(alphabet, n - 1)
         IN  shorter \cup {s \o c : s \in shorter, c \in alphabet}

TextAlphabet == {"\t", " ", "\n", "a"}

TokenAlphabet == {"0", "1", ".", "-", "+", "e", "x", ",", " ", "a"}

\* a header line of three columns and a data line whose middle cell is token
TokenText(token) == "k\tv\tw\nr\t" \o token \o "\ts"

ExampleTexts ==
    { "Name\tAge\tCity\nAlice\t30\tNYC\nBob\t  badrow",
      "Name   Score\nAlice   90\nBob     85\n",
      "Name\tAge\tCity",
      "Name   Score\nAlice   90\nBob  85  late\nTotal\n\nCarol \t 70\n",
      "Name\t Age\nBob\t 7",
      "k\tv\tw\n42\t4.5\tabc\n1,000\t\t3.\n\t\t \n-7\t.5\tInfinity",
      "h\tv\r\n0x1F\t1e3\r\n0b11\t-0.25\r\n1e-7\t12e20\r\n",
      "item\tnote\n<script>\ta&b\n",
      "a\t<th>\nb\t</td><td>\n",
      "x\ty\n</table><table>\t1\nz\n",
      "Name\tAge\nBob\nAl\t3\t4\nCy \t5\t6\n" }

ExtractTexts ==
    StringsUpTo(TextAlphabet, MaxTextLen)
    \cup {TokenText(token) : token \in StringsUpTo(TokenAlphabet, MaxTokLen)}
    \cup ExampleTexts

\* the paths pdfTableToHTMLDashboard is called with
PdfPaths == {"uploads/a.pdf", "tmp/a.pdf", "uploads/b.pdf"}

\* the document of the runs over ExtractTexts
ExtractPath == "uploads/a.pdf"

\* the documents of the repeated runs
SmallDocs ==
    { Absent, Corrupt,
      Pdf("Name   Score\nAlice   90\nBob     85\n"),
      Pdf("k\tv\nr\t1"),
      Pdf("item\tnote\n<script>\ta&b\nx\t</td><td>\n"),
      Pdf("no table in this text\n") }

\* ------------------------------------------------------------------------
\* State
\* ------------------------------------------------------------------------

VARIABLES
    pdfs,        \* the source documents: path -> Absent, Corrupt or Pdf(text)
    dirExists,   \* whether the directory DashboardDir exists
    files,       \* the files of DashboardDir: path -> content
    pc,          \* where the invocation of pdfTableToHTMLDashboard stands
    filePath,    \* its argument
    buffer,      \* extractTable: what fs.readFile returned
    text,        \* extractTable: data.text
    table,       \* what extractTable returned: [headers, values]
    html,        \* what generateHTML returned
    outputPath,  \* saveHTMLToFile: outputPath
    outcome      \* how the invocation ended: returned value or thrown error

\* the concurrent invocations: for each its position and its locals
VARIABLES inv

concVars == <<inv>>

\* the page App: its React state, the asynchronous handlers in flight, and
\* the browser tabs the page has opened
VARIABLES
    selectedFiles,     \* useState([]): the files chosen for the next upload
    allPdfData,        \* useState([]): the answer of the last upload
    summary,           \* useState('')
    loading,           \* useState(false)
    error,             \* useState('')
    chatMessages,      \* useState([])
    comparisonResult,  \* useState('')
    comparing,         \* useState(false)
    upload,            \* the call of handleUploadPDFs in flight and its locals
    compare,           \* the call of handleComparePDFs in flight and its locals
    tabs,              \* the tabs opened by window.open, in order
    picked             \* the number of files the user has chosen so far

uiVars == <<selectedFiles, allPdfData, summary, loading, error, chatMessages,
            comparisonResult, comparing, upload, compare, tabs, picked>>

vars == <<pdfs, dirExists, files, pc, filePath, buffer, text, table, html,
          outputPath, outcome, inv, uiVars>>

\* the state outside the sequential invocation and the file system
otherVars == <<concVars, uiVars>>

fsVars == <<dirExists, files>>

Null == [kind |-> "null"]

Pending == [kind |-> "pending"]

Returned(value) == [kind |-> "returned", value |-> value]

Thrown(message) == [kind |-> "thrown", message |-> message]

Procs == 1..NumProcs

\* the locals of a concurrent invocation that has not been made
NotInvoked ==
    [pc |-> "idle", filePath |-> "", buffer |-> Null, text |-> "", table |-> Null,
     html |-> "", outputPath |-> "", outcome |-> Pending]

\* no invocation has been made; string locals are "" until assigned
NoInvocation ==
    /\ dirExists = FALSE
    /\ files = << >>
    /\ pc = "idle"
    /\ filePath = ""
    /\ buffer = Null
    /\ text = ""
    /\ table = Null
    /\ html = ""
    /\ outputPath = ""
    /\ outcome = Pending
    /\ inv = [p \in Procs |-> NotInvoked]

\* no call of handleUploadPDFs is in flight
NoUpload == [pc |-> "idle", formData |-> << >>, data |-> << >>]

\* no call of handleComparePDFs is in flight
NoCompare == [pc |-> "idle", newTab |-> 0, comparisonResult |-> ""]

\* the page after its first render
Mounted ==
    /\ selectedFiles = << >>
    /\ allPdfData = << >>
    /\ summary = ""
    /\ loading = FALSE
    /\ error = ""
    /\ chatMessages = << >>
    /\ comparisonResult = ""
    /\ comparing = FALSE
    /\ upload = NoUpload
    /\ compare = NoCompare
    /\ tabs = << >>
    /\ picked = 0

\* repeated invocations over a few small documents
Init ==
    /\ pdfs \in [PdfPaths -> SmallDocs]
    /\ NoInvocation
    /\ Mounted

\* one document drawn from ExtractTexts, the other paths absent
InitExtract ==
    /\ \E doc \in {Corrupt} \cup {Pdf(t) : t \in ExtractTexts} :
           pdfs = [p \in PdfPaths |-> IF p = ExtractPath THEN doc ELSE Absent]
    /\ NoInvocation
    /\ Mounted

\* ------------------------------------------------------------------------
\* pdfTableToHTMLDashboard, one action per step between two awaits
\* ------------------------------------------------------------------------

\* the caller calls pdfTableToHTMLDashboard(path); invocations are sequential
Invoke(path) ==
    /\ pc \in {"idle", "done", "failed"}
    /\ pc' = "readFile"
    /\ filePath' = path
    /\ buffer' = Null
    /\ text' = ""
    /\ table' = Null
    /\ html' = ""
    /\ outputPath' = ""
    /\ outcome' = Pending
    /\ UNCHANGED <<pdfs, dirExists, files>>
    /\ UNCHANGED otherVars

\* a thrown error rejects the promise of the invocation
Fail(message) ==
    /\ pc' = "failed"
    /\ outcome' = Thrown(message)

\* ReadFile with the output directory created before the document is read
ReadFileAfterMkdir ==
    /\ pc = "readFile"
    /\ pdfs[filePath] # Absent
    /\ buffer' = pdfs[filePath]
    /\ pc' = "pdfParse"
    /\ dirExists' = TRUE
    /\ UNCHANGED <<pdfs, files, filePath, text, table, html, outputPath, outcome>>
    /\ UNCHANGED otherVars

\* await fs.readFile(filePath) resolves with the bytes of the file
ReadFile ==
    /\ pc = "readFile"
    /\ pdfs[filePath] # Absent
    /\ buffer' = pdfs[filePath]
    /\ pc' = "pdfParse"
    /\ UNCHANGED <<pdfs, dirExists, files, filePath, text, table, html,
                   outputPath, outcome>>
    /\ UNCHANGED otherVars

\* await fs.readFile(filePath) rejects: no such file
ReadFileFails ==
    /\ pc = "readFile"
    /\ pdfs[filePath] = Absent
    /\ Fail("ENOENT: no such file or directory")
    /\ UNCHANGED <<pdfs, dirExists, files, filePath, buffer, text, table, html,
                   outputPath>>
    /\ UNCHANGED otherVars

\* await pdfParse(buffer) resolves with the text of the document
PdfParse ==
    /\ pc = "pdfParse"
    /\ buffer.kind = "pdf"
    /\ text' = buffer.text
    /\ pc' = "extract"
    /\ UNCHANGED <<pdfs, dirExists, files, filePath, buffer, table, html,
                   outputPath, outcome>>
    /\ UNCHANGED otherVars

\* await pdfParse(buffer) rejects: the bytes are not a PDF
PdfParseFails ==
    /\ pc = "pdfParse"
    /\ buffer.kind = "corrupt"
    /\ Fail("Invalid PDF structure")
    /\ UNCHANGED <<pdfs, dirExists, files, filePath, buffer, text, table, html,
                   outputPath>>
    /\ UNCHANGED otherVars

\* the rest of extractTable: the lines are selected, split and converted, and
\* { headers, values } is returned
ExtractTable ==
    /\ pc = "extract"
    /\ ~TooFewLines(TableLines(text))
    /\ table' = TableOf(text)
    /\ pc' = "generate"
    /\ UNCHANGED <<pdfs, dirExists, files, filePath, buffer, text, html,
                   outputPath, outcome>>
    /\ UNCHANGED otherVars

\* the rest of extractTable when fewer than two lines are selected
ExtractTableThrows ==
    /\ pc = "extract"
    /\ TooFewLines(TableLines(text))
    /\ Fail(NoTableMessage)
    /\ UNCHANGED <<pdfs, dirExists, files, filePath, buffer, text, table, html,
                   outputPath>>
    /\ UNCHANGED otherVars

\* generateHTML(headers, values), then saveHTMLToFile up to its first await
GenerateHTML ==
    /\ pc = "generate"
    /\ html' = GenerateHTMLOf(table.headers, table.values)
    /\ pc' = "mkdir"
    /\ UNCHANGED <<pdfs, dirExists, files, filePath, buffer, text, table,
                   outputPath, outcome>>
    /\ UNCHANGED otherVars

\* await fs.mkdir(dashboardDir, { recursive: true }): creates the directory,
\* and resolves as well when it exists; outputPath is computed next
Mkdir ==
    /\ pc = "mkdir"
    /\ dirExists' = TRUE
    /\ outputPath' = OutputPathOf(Basename(filePath, ".pdf"))
    /\ pc' = "writeFile"
    /\ UNCHANGED <<pdfs, files, filePath, buffer, text, table, html, outcome>>
    /\ UNCHANGED otherVars

\* WriteFileEffect opening the file for appending instead of truncating it
WriteFileAppending(fs, path, content) ==
    [p \in DOMAIN fs \cup {path} |->
        IF p # path THEN fs[p]
        ELSE IF path \in DOMAIN fs THEN fs[path] \o content ELSE content]

\* fs.writeFile(path, content): creates or truncates the file and writes
WriteFileEffect(fs, path, content) ==
    [p \in DOMAIN fs \cup {path} |-> IF p = path THEN content ELSE fs[p]]

\* await fs.writeFile(outputPath, htmlContent), then both functions return
\* outputPath
WriteFile ==
    /\ pc = "writeFile"
    /\ dirExists
    /\ files' = WriteFileEffect(files, outputPath, html)
    /\ pc' = "done"
    /\ outcome' = Returned(outputPath)
    /\ UNCHANGED <<pdfs, dirExists, filePath, buffer, text, table, html,
                   outputPath>>
    /\ UNCHANGED otherVars

Next ==
    \/ \E path \in PdfPaths : Invoke(path)
    \/ ReadFile
    \/ ReadFileFails
    \/ PdfParse
    \/ PdfParseFails
    \/ ExtractTable
    \/ ExtractTableThrows
    \/ GenerateHTML
    \/ Mkdir
    \/ WriteFile

Spec == Init /\ [][Next]_vars

SpecExtract == InitExtract /\ [][Next]_vars

\* ------------------------------------------------------------------------
\* Concurrent invocations of pdfTableToHTMLDashboard: each runs the steps
\* above on its own locals inv[p]; the file system is shared, and
\* fs.writeFile is the two steps it takes on the file: open with flag 'w',
\* which creates or truncates it, then write the content from position 0
\* ------------------------------------------------------------------------

seqVars == <<pc, filePath, buffer, text, table, html, outputPath, outcome>>

\* the invocation p goes on with the locals next
Step(p, next) ==
    /\ inv' = [inv EXCEPT ![p] = next]
    /\ UNCHANGED <<pdfs, seqVars, uiVars>>

\* pdfTableToHTMLDashboard(path) is called while other invocations run; each
\* invocation of the model is made once
ConcInvoke(p, path) ==
    /\ inv[p].pc = "idle"
    /\ Step(p, [NotInvoked EXCEPT !.pc = "readFile", !.filePath = path])
    /\ UNCHANGED fsVars

ConcReadFile(p) ==
    /\ inv[p].pc = "readFile"
    /\ pdfs[inv[p].filePath] # Absent
    /\ Step(p, [inv[p] EXCEPT !.pc = "pdfParse", !.buffer = pdfs[inv[p].filePath]])
    /\ UNCHANGED fsVars

ConcReadFileFails(p) ==
    /\ inv[p].pc = "readFile"
    /\ pdfs[inv[p].filePath] = Absent
    /\ Step(p, [inv[p] EXCEPT !.pc = "failed",
                              !.outcome = Thrown("ENOENT: no such file or directory")])
    /\ UNCHANGED fsVars

ConcPdfParse(p) ==
    /\ inv[p].pc = "pdfParse"
    /\ inv[p].buffer.kind = "pdf"
    /\ Step(p, [inv[p] EXCEPT !.pc = "extract", !.text = inv[p].buffer.text])
    /\ UNCHANGED fsVars

ConcPdfParseFails(p) ==
    /\ inv[p].pc = "pdfParse"
    /\ inv[p].buffer.kind = "corrupt"
    /\ Step(p, [inv[p] EXCEPT !.pc = "failed",
                              !.outcome = Thrown("Invalid PDF structure")])
    /\ UNCHANGED fsVars

ConcExtractTable(p) ==
    /\ inv[p].pc = "extract"
    /\ ~TooFewLines(TableLines(inv[p].text))
    /\ Step(p, [inv[p] EXCEPT !.pc = "generate", !.table = TableOf(inv[p].text)])
    /\ UNCHANGED fsVars

ConcExtractTableThrows(p) ==
    /\ inv[p].pc = "extract"
    /\ TooFewLines(TableLines(inv[p].text))
    /\ Step(p, [inv[p] EXCEPT !.pc = "failed", !.outcome = Thrown(NoTableMessage)])
    /\ UNCHANGED fsVars

ConcGenerateHTML(p) ==
    /\ inv[p].pc = "generate"
    /\ Step(p, [inv[p] EXCEPT
                   !.pc = "mkdir",
                   !.html = GenerateHTMLOf(inv[p].table.headers, inv[p].table.values)])
    /\ UNCHANGED fsVars

\* ConcMkdir without { recursive: true }: EEXIST when the directory exists
ConcMkdirExclusive(p) ==
    /\ inv[p].pc = "mkdir"
    /\ IF dirExists
       THEN Step(p, [inv[p] EXCEPT !.pc = "failed",
                                   !.outcome = Thrown("EEXIST: file already exists")])
       ELSE Step(p, [inv[p] EXCEPT
                        !.pc = "openFile",
                        !.outputPath = OutputPathOf(Basename(inv[p].filePath, ".pdf"))])
    /\ dirExists' = TRUE
    /\ UNCHANGED files

\* await fs.mkdir(dashboardDir, { recursive: true }): the directory is
\* created, or found to exist, in which case the call resolves as well
ConcMkdir(p) ==
    /\ inv[p].pc = "mkdir"
    /\ dirExists' = TRUE
    /\ Step(p, [inv[p] EXCEPT
                   !.pc = "openFile",
                   !.outputPath = OutputPathOf(Basename(inv[p].filePath, ".pdf"))])
    /\ UNCHANGED files

\* the content of a file after data is written into it from position 0
WriteAtStart(old, data) == data \o Slice(old, Len(data) + 1, Len(old))

\* fs.writeFile opens outputPath with flag 'w'
ConcOpenFile(p) ==
    /\ inv[p].pc = "openFile"
    /\ dirExists
    /\ files' = WriteFileEffect(files, inv[p].outputPath, "")
    /\ Step(p, [inv[p] EXCEPT !.pc = "writeData"])
    /\ UNCHANGED dirExists

\* fs.writeFile writes htmlContent and closes the file; both functions return
\* outputPath
ConcWriteData(p) ==
    /\ inv[p].pc = "writeData"
    /\ files' = WriteFileEffect(files, inv[p].outputPath,
                                WriteAtStart(files[inv[p].outputPath], inv[p].html))
    /\ Step(p, [inv[p] EXCEPT !.pc = "done", !.outcome = Returned(inv[p].outputPath)])
    /\ UNCHANGED dirExists

\* the documents of the concurrent runs: any document at one path, a table or
\* a failing document at each of the others
ConcDocs(path) ==
    IF path = "uploads/a.pdf" THEN SmallDocs
    ELSE IF path = "tmp/a.pdf" THEN {Pdf("k\tv\nr\t1"), Absent}
    ELSE {Pdf("item\tnote\n<script>\ta&b\nx\t</td><td>\n"), Corrupt,
          Pdf("no table in this text\n")}

InitConc ==
    /\ pdfs \in {f \in [PdfPaths -> SmallDocs] : \A path \in PdfPaths : f[path] \in ConcDocs(path)}
    /\ NoInvocation
    /\ Mounted

NextConc ==
    \E p \in Procs :
        \/ \E path \in PdfPaths : ConcInvoke(p, path)
        \/ ConcReadFile(p)
        \/ ConcReadFileFails(p)
        \/ ConcPdfParse(p)
        \/ ConcPdfParseFails(p)
        \/ ConcExtractTable(p)
        \/ ConcExtractTableThrows(p)
        \/ ConcGenerateHTML(p)
        \/ ConcMkdir(p)
        \/ ConcOpenFile(p)
        \/ ConcWriteData(p)

SpecConc == InitConc /\ [][NextConc]_vars

\* ------------------------------------------------------------------------
\* The page App (src/frontend/src/App.jsx): the selection of files, the
\* upload and the comparison.  A handler reads the React state of the
\* render it was created in; a state setter acts on the current state.  The
\* steps of a handler between two awaits on the network are one action.
\* ------------------------------------------------------------------------

backendVars == <<pdfs, fsVars, seqVars, concVars>>

\* the name of the n-th file the user picks
FileName(n) == "f" \o NatToString(n) \o ".pdf"

\* the entries of the answer of /upload that carry no error
Successful(data) == SelectSeq(data, LAMBDA pdf : ~pdf.error)

Failed(data) == SelectSeq(data, LAMBDA pdf : pdf.error)

FileNames(data) == Join([i \in 1..Len(data) |-> data[i].filename], ", ")

\* successfulPdfs.map(pdf => pdf.text).join('\n\n---\n\n')
CombinedText(data) == Join([i \in 1..Len(data) |-> data[i].text], "\n\n---\n\n")

FailedMessage(data) ==
    "Failed to process: " \o FileNames(data)
        \o ". Some PDFs might be corrupted, encrypted, or malformed."

BotMessage(data) ==
    [sender |-> "bot",
     text |-> "PDF(s) uploaded and processed: " \o FileNames(data)
                  \o ". How can I help you with these documents?"]

\* what the server may answer for one file: an error, no text, or a text
UploadEntries(file) ==
    { [filename |-> FileName(file), error |-> TRUE, text |-> ""],
      [filename |-> FileName(file), error |-> FALSE, text |-> ""],
      [filename |-> FileName(file), error |-> FALSE, text |-> "text"] }

\* the answers of /upload to a form of files: one entry per file, in order
UploadData(formData) ==
    {data \in [1..Len(formData) -> UNION {UploadEntries(f) : f \in {formData[i] : i \in 1..Len(formData)}}] :
        \A i \in 1..Len(formData) : data[i] \in UploadEntries(formData[i])}

\* the forms of files handleUploadPDFs can send: the files picked since the
\* selection was last emptied
Forms == {[i \in 1..n |-> a + i] : a \in 0..(MaxFiles - 1), n \in 1..MaxFiles}

UploadAnswers == UNION {UploadData(form) : form \in Forms}

UploadErrors == {"Failed to upload PDFs due to a server error.", "Failed to fetch"}

Summaries == {"a summary"}

SummarizeErrors == {"Failed to summarize PDF(s)"}

\* the backtick, written ' here: a string of the module cannot hold it
Backtick == "'"

\* the answers of /compare
Answers == {"alike", "not\\" \o Backtick \o "alike" \o Backtick}

CompareErrors == {"Failed to get comparison from AI"}

\* .replace(/`/g, ...): a backslash is put before every backtick
RECURSIVE EscapeBackticks(_)
EscapeBackticks(s) ==
    IF s = "" THEN ""
    ELSE (IF At(s, 1) = Backtick THEN "\\" \o Backtick ELSE At(s, 1))
             \o EscapeBackticks(Slice(s, 2, Len(s)))

\* .replace(/\\*/g, ""): every run of backslashes is removed
RECURSIVE RemoveBackslashes(_)
RemoveBackslashes(s) ==
    IF s = "" THEN ""
    ELSE (IF At(s, 1) = "\\" THEN "" ELSE At(s, 1))
             \o RemoveBackslashes(Slice(s, 2, Len(s)))

\* the text put between the backticks of the script of the report; the
\* replacement of /\\n/g by "\\n" in between changes nothing
Raw(result) == RemoveBackslashes(EscapeBackticks(result))

\* the document written into the tab, as far as it depends on the state
ReportOf(result) ==
    "<div class=\"section\" id=\"comparisonContent\"></div><script>const raw = "
        \o Backtick \o Raw(result) \o Backtick \o ";</script>"

BlankTab == [status |-> "blank", content |-> ""]

\* handleFileChange: the user picks n further files in the file input, which
\* is never disabled
HandleFileChange(n) ==
    /\ picked + n <= MaxFiles
    /\ selectedFiles' = selectedFiles \o [i \in 1..n |-> picked + i]
    /\ picked' = picked + n
    /\ allPdfData' = << >>
    /\ summary' = ""
    /\ chatMessages' = << >>
    /\ error' = ""
    /\ comparisonResult' = ""
    /\ UNCHANGED <<loading, comparing, upload, compare, tabs>>
    /\ UNCHANGED backendVars

\* handleUploadPDFs up to the await of fetch('/upload'); the button is
\* disabled while loading or when no file is selected, so the early return
\* on an empty selection is never taken from the page
HandleUploadPDFs ==
    /\ ~loading
    /\ Len(selectedFiles) > 0
    /\ loading' = TRUE
    /\ error' = ""
    /\ upload' = [pc |-> "upload", formData |-> selectedFiles, data |-> << >>]
    /\ UNCHANGED <<selectedFiles, allPdfData, summary, chatMessages, comparisonResult,
                   comparing, compare, tabs, picked>>
    /\ UNCHANGED backendVars

\* the finally block of handleUploadPDFs
UploadFinally ==
    /\ loading' = FALSE
    /\ selectedFiles' = << >>
    /\ upload' = NoUpload

\* /upload answers data: from setAllPdfData(data) to the await in
\* handleSummarize, or to the end of the handler when there is nothing to
\* summarize
UploadResponds(data) ==
    /\ upload.pc = "upload"
    /\ data \in UploadData(upload.formData)
    /\ allPdfData' = data
    /\ IF Successful(data) = << >>
       THEN /\ error' = FailedMessage(Failed(data))
            /\ UploadFinally
            /\ UNCHANGED chatMessages
       ELSE IF CombinedText(Successful(data)) = ""
       THEN /\ error' = "No PDF text to summarize. Please upload valid PDFs."
            /\ chatMessages' = <<BotMessage(Successful(data))>>
            /\ UploadFinally
       ELSE /\ error' = ""
            /\ loading' = TRUE
            /\ upload' = [upload EXCEPT !.pc = "summarize", !.data = data]
            /\ UNCHANGED <<selectedFiles, chatMessages>>
    /\ UNCHANGED <<summary, comparisonResult, comparing, compare, tabs, picked>>
    /\ UNCHANGED backendVars

\* /upload answers with an error status, or fetch rejects
UploadFails(message) ==
    /\ upload.pc = "upload"
    /\ error' = message
    /\ UploadFinally
    /\ UNCHANGED <<allPdfData, summary, chatMessages, comparisonResult, comparing,
                   compare, tabs, picked>>
    /\ UNCHANGED backendVars

\* the summary arrives: handleSummarize ends and handleUploadPDFs runs to
\* its end
SummarizeResponds(answer) ==
    /\ upload.pc = "summarize"
    /\ summary' = answer
    /\ chatMessages' = <<BotMessage(Successful(upload.data))>>
    /\ UploadFinally
    /\ UNCHANGED <<allPdfData, error, comparisonResult, comparing, compare, tabs, picked>>
    /\ UNCHANGED backendVars

\* the summary fails: handleSummarize catches the error and handleUploadPDFs
\* runs to its end
SummarizeFails(message) ==
    /\ upload.pc = "summarize"
    /\ error' = message
    /\ chatMessages' = <<BotMessage(Successful(upload.data))>>
    /\ UploadFinally
    /\ UNCHANGED <<allPdfData, summary, comparisonResult, comparing, compare, tabs,
                   picked>>
    /\ UNCHANGED backendVars

\* handleComparePDFs up to the await of fetch('/compare'): the button is
\* disabled while comparing or with fewer than two processed documents; the
\* handler opens the tab and keeps the comparisonResult of its render
HandleComparePDFs ==
    /\ ~comparing
    /\ Len(Successful(allPdfData)) >= 2
    /\ Len(tabs) < MaxTabs
    /\ comparing' = TRUE
    /\ error' = ""
    /\ tabs' = Append(tabs, BlankTab)
    /\ compare' = [pc |-> "compare", newTab |-> Len(tabs) + 1,
                   comparisonResult |-> comparisonResult]
    /\ UNCHANGED <<selectedFiles, allPdfData, summary, loading, chatMessages,
                   comparisonResult, upload, picked>>
    /\ UNCHANGED backendVars

\* /compare answers: setComparisonResult(data.answer), the report is written
\* into the tab and the document is closed
CompareResponds(answer) ==
    /\ compare.pc = "compare"
    /\ comparisonResult' = answer
    /\ tabs' = [tabs EXCEPT ![compare.newTab] =
                    [status |-> "written", content |-> ReportOf(compare.comparisonResult)]]
    /\ comparing' = FALSE
    /\ compare' = NoCompare
    /\ UNCHANGED <<selectedFiles, allPdfData, summary, loading, error, chatMessages,
                   upload, picked>>
    /\ UNCHANGED backendVars

\* /compare answers with an error status, or fetch rejects: the tab is closed
CompareFails(message) ==
    /\ compare.pc = "compare"
    /\ error' = message
    /\ tabs' = [tabs EXCEPT ![compare.newTab] = [status |-> "closed", content |-> ""]]
    /\ comparing' = FALSE
    /\ compare' = NoCompare
    /\ UNCHANGED <<selectedFiles, allPdfData, summary, loading, chatMessages,
                   comparisonResult, upload, picked>>
    /\ UNCHANGED backendVars

\* the page alone: no document is processed by pdfTableToHTMLDashboard
InitUI ==
    /\ pdfs = [path \in PdfPaths |-> Absent]
    /\ NoInvocation
    /\ Mounted

NextUI ==
    \/ \E n \in 1..2 : HandleFileChange(n)
    \/ HandleUploadPDFs
    \/ \E data \in UploadAnswers : UploadResponds(data)
    \/ \E message \in UploadErrors : UploadFails(message)
    \/ \E answer \in Summaries : SummarizeResponds(answer)
    \/ \E message \in SummarizeErrors : SummarizeFails(message)
    \/ HandleComparePDFs
    \/ \E answer \in Answers : CompareResponds(answer)
    \/ \E message \in CompareErrors : CompareFails(message)

SpecUI == InitUI /\ [][NextUI]_vars

\* ------------------------------------------------------------------------
\* Notions the properties are stated with
\* ------------------------------------------------------------------------

\* extractTable has come to its end on the text of a readable PDF
Extracted ==
    /\ buffer.kind = "pdf"
    /\ pc \in {"generate", "mkdir", "writeFile", "done", "failed"}

\* extractTable has returned a table
HasTable == table # Null

\* the positions that delimit the lines of t: before its first character,
\* its newlines, and after its last character
LineBounds(t) == {0, Len(t) + 1} \cup {i \in 1..Len(t) : At(t, i) = "\n"}

\* the pairs <<a, b>> of neighbouring bounds: a line is t[a+1 .. b-1]
LineSpans(t) ==
    {sp \in LineBounds(t) \X LineBounds(t) :
        /\ sp[1] < sp[2]
        /\ \A m \in LineBounds(t) : ~(sp[1] < m /\ m < sp[2])}

\* a line that is not blank and holds a tab or two neighbouring white spaces
TabularShaped(line) ==
    /\ \E i \in 1..Len(line) : At(line, i) \notin WhiteSpace
    /\ \/ \E i \in 1..Len(line) : At(line, i) = "\t"
       \/ \E i \in 1..(Len(line) - 1) :
              At(line, i) \in WhiteSpace /\ At(line, i + 1) \in WhiteSpace

TabularLineCount(t) ==
    Cardinality({sp \in LineSpans(t) : TabularShaped(Slice(t, sp[1] + 1, sp[2] - 1))})

\* the tokens of the data lines that have the column count of the header
KeptTokens ==
    LET rows == SplitRows(TableLines(text))
    IN  SelectSeq(Tail(rows), LAMBDA row : Len(row) = Len(rows[1]))

\* the cells of the returned table stand one to one for the kept tokens,
\* and every token and its cell satisfy Rule
CellsFollowTokens(Rule(_, _)) ==
    LET kept == KeptTokens
    IN  /\ Len(table.values) = Len(kept)
        /\ \A i \in 1..Len(kept) :
               /\ Len(table.values[i]) = Len(kept[i])
               /\ \A j \in 1..Len(kept[i]) : Rule(kept[i][j], table.values[i][j])

AllDigits(s) == \A i \in 1..Len(s) : At(s, i) \in Digits

RECURSIVE Pow(_, _)
Pow(b, n) == IF n <= 0 THEN 1 ELSE b * Pow(b, n - 1)

RECURSIVE PositionalSum(_, _, _)
\* the sum of digit * radix^(place) over the digits of s from position i on
PositionalSum(s, radix, i) ==
    IF i > Len(s) THEN 0
    ELSE DigitValue(At(s, i)) * Pow(radix, Len(s) - i) + PositionalSum(s, radix, i + 1)

\* cell is the number sign * m * 10^e
IsNumber(cell, neg, m, e) ==
    /\ cell.kind = "number"
    /\ ~cell.inf
    /\ cell.exp >= e
    /\ cell.mant * Pow(10, cell.exp - e) = m
    /\ (m # 0 => cell.neg = neg)

\* ------------------------------------------------------------------------
\* C1
\* ------------------------------------------------------------------------

\* C1: whenever extractTable has returned a table, every row of its values
\* has exactly as many cells as there are headers, and the headers are as many
\* as the tokens of the first selected line.
C1_RowsHaveHeaderLength ==
    HasTable =>
        /\ \A i \in 1..Len(table.values) : Len(table.values[i]) = Len(table.headers)
        /\ Len(table.headers) = Len(SplitCells(Trim(TableLines(text)[1]), 1, 1))

\* a table was returned with a row kept and a row of another length dropped
C1_Witness ==
    /\ HasTable
    /\ Len(table.values) >= 1
    /\ Len(table.values) < Len(TableLines(text)) - 1

\* ------------------------------------------------------------------------
\* C2
\* ------------------------------------------------------------------------

\* C2: when the text has fewer than 2 tabular-shaped lines, extractTable
\* ends by throwing "No table-like data found" and no table is returned.
C2_FewLinesFail ==
    (Extracted /\ TabularLineCount(text) < 2) =>
        /\ pc = "failed"
        /\ outcome = Thrown(NoTableMessage)
        /\ ~HasTable

\* the text has exactly one tabular-shaped line and extractTable has thrown
C2_Witness ==
    /\ Extracted
    /\ TabularLineCount(text) = 1
    /\ outcome = Thrown(NoTableMessage)

\* ------------------------------------------------------------------------
\* C3
\* ------------------------------------------------------------------------

C3_Text == "Name\tAge\tCity\nAlice\t30\tNYC\nBob\t  badrow"

\* C3: for the three-line text of the specification, extractTable returns
\* the headers Name, Age, City and the single row Alice, 30, NYC: the line
\* of Bob is dropped.
C3_BobRowDropped ==
    (Extracted /\ text = C3_Text) =>
        table = [headers |-> <<"Name", "Age", "City">>,
                 values |-> <<<<Str("Alice"), Num(30), Str("NYC")>>>>]

\* ------------------------------------------------------------------------
\* C4
\* ------------------------------------------------------------------------

\* at least two lines are selected and no line after the first has the
\* token count of the first
NoRowMatchesHeader ==
    LET rows == SplitRows(TableLines(text))
    IN  /\ Len(rows) >= 2
        /\ \A i \in 2..Len(rows) : Len(rows[i]) # Len(rows[1])

\* C4 as claimed: extractTable throws the no-tabular-data error whenever no
\* data row remains after the column-count filter.
C4_NoRowsFail ==
    (Extracted /\ NoRowMatchesHeader) => outcome = Thrown(NoTableMessage)

\* C4 as amended: extractTable throws the no-tabular-data error exactly when
\* fewer than 2 tabular-shaped lines are found; when no data row remains
\* after the column-count filter it returns a table without rows.
C4_FailOnlyOnFewLines ==
    Extracted =>
        /\ (outcome = Thrown(NoTableMessage)) <=> (TabularLineCount(text) < 2)
        /\ NoRowMatchesHeader => (HasTable /\ table.values = << >>)

\* two lines were selected, none after the first matched, a table came back
C4_Witness ==
    /\ Extracted
    /\ NoRowMatchesHeader
    /\ HasTable
    /\ pc = "generate"

\* ------------------------------------------------------------------------
\* C5
\* ------------------------------------------------------------------------

HasSign(t) == Len(t) >= 1 /\ At(t, 1) \in {"+", "-"}

Unsigned(t) == IF HasSign(t) THEN Slice(t, 2, Len(t)) ELSE t

IsNegative(t) == Len(t) >= 1 /\ At(t, 1) = "-"

DotPositions(m) == {i \in 1..Len(m) : At(m, i) = "."}

\* digits with at most one decimal point among them, and at least one digit
IsMantissa(m) ==
    /\ Cardinality(DotPositions(m)) <= 1
    /\ \A i \in 1..Len(m) : At(m, i) \in Digits \cup {"."}
    /\ \E i \in 1..Len(m) : At(m, i) \in Digits

\* digits, then a decimal point, then digits: nothing may be missing
IsPlainDecimal(m) ==
    \/ (m # "" /\ AllDigits(m))
    \/ \E d \in 2..(Len(m) - 1) :
           /\ At(m, d) = "."
           /\ AllDigits(Slice(m, 1, d - 1))
           /\ AllDigits(Slice(m, d + 1, Len(m)))

IsExponent(x) == Unsigned(x) # "" /\ AllDigits(Unsigned(x))

ExponentMarks(u) == {k \in 1..Len(u) : At(u, k) \in {"e", "E"}}

IsDecimalLiteral(u) ==
    \/ u = "Infinity"
    \/ IsMantissa(u)
    \/ \E k \in ExponentMarks(u) :
           IsMantissa(Slice(u, 1, k - 1)) /\ IsExponent(Slice(u, k + 1, Len(u)))

LiteralRadix(t) ==
    IF Len(t) >= 3 /\ At(t, 1) = "0"
    THEN CASE At(t, 2) \in {"x", "X"} -> 16
           [] At(t, 2) \in {"o", "O"} -> 8
           [] At(t, 2) \in {"b", "B"} -> 2
           [] OTHER -> 0
    ELSE 0

IsRadixLiteral(t) ==
    /\ LiteralRadix(t) # 0
    /\ \A i \in 3..Len(t) :
           /\ At(t, i) \in HexDigits
           /\ DigitValue(At(t, i)) < LiteralRadix(t)

\* the literals Number() accepts
IsNumericLiteral(t) == t # "" /\ (IsDecimalLiteral(Unsigned(t)) \/ IsRadixLiteral(t))

\* the literals the claim names: optional sign, digits, optionally a decimal
\* point followed by digits
IsSimpleLiteral(t) == IsPlainDecimal(Unsigned(t))

WithoutDot(m) ==
    IF DotPositions(m) = {} THEN m
    ELSE LET d == CHOOSE i \in DotPositions(m) : TRUE
         IN  Slice(m, 1, d - 1) \o Slice(m, d + 1, Len(m))

FractionLength(m) ==
    IF DotPositions(m) = {} THEN 0
    ELSE Len(m) - (CHOOSE i \in DotPositions(m) : TRUE)

\* cell is the number the decimal literal t denotes
IsDecimalValue(cell, t) ==
    LET u == Unsigned(t)
        marks == ExponentMarks(u)
        k == IF marks = {} THEN Len(u) + 1 ELSE CHOOSE i \in marks : TRUE
        m == Slice(u, 1, k - 1)
        x == Slice(u, k + 1, Len(u))
        xAbs == PositionalSum(Unsigned(x), 10, 1)
        e == (IF IsNegative(x) THEN 0 - xAbs ELSE xAbs) - FractionLength(m)
        digits == PositionalSum(WithoutDot(m), 10, 1)
    IN  IF u = "Infinity" THEN cell = Infinity(IsNegative(t))
        ELSE IF digits = 0 THEN cell.kind = "number" /\ ~cell.inf /\ cell.mant = 0
        ELSE IsNumber(cell, IsNegative(t), digits, e)

\* cell is the number the literal t denotes
IsLiteralValue(cell, t) ==
    IF IsRadixLiteral(t)
    THEN IsNumber(cell, FALSE, PositionalSum(Slice(t, 3, Len(t)), LiteralRadix(t), 1), 0)
    ELSE IsDecimalValue(cell, t)

\* the conversion of a token to its cell as the claim states it
SimpleLiteralRule(token, cell) ==
    IF IsSimpleLiteral(Trim(token))
    THEN IsDecimalValue(cell, Trim(token))
    ELSE cell = Str(Trim(token))

\* C5 as claimed: a cell is a number exactly when its trimmed token is an
\* optionally signed integer or decimal literal (digits, optionally a point
\* followed by digits), and is then its value; every other token, "1,000"
\* and "3." among them, comes back as its trimmed string.
C5_NumberIffSimpleLiteral == HasTable => CellsFollowTokens(SimpleLiteralRule)

\* the conversion of a token to its cell over the literals Number() accepts
NumericLiteralRule(token, cell) ==
    IF IsNumericLiteral(Trim(token))
    THEN IsLiteralValue(cell, Trim(token))
    ELSE cell = Str(Trim(token))

\* C5 as amended: a cell is a number exactly when its trimmed token is not
\* empty and is a literal Number() accepts (a decimal literal, optionally
\* signed, whose digits before or after the point may be missing and which
\* may have an exponent part; a signed or unsigned Infinity; an unsigned 0x,
\* 0o or 0b literal), and is then its value; every other token comes back as
\* its trimmed string.
C5_NumberIffNumericLiteral == HasTable => CellsFollowTokens(NumericLiteralRule)

\* a returned row holds "1,000" as a string and "3." as the number 3
C5_Witness ==
    /\ HasTable
    /\ \E i \in 1..Len(table.values) :
           /\ Len(table.values[i]) = Len(KeptTokens[i])
           /\ \E j \in 1..Len(KeptTokens[i]) :
                  /\ KeptTokens[i][j] = "1,000"
                  /\ table.values[i][j] = Str("1,000")
           /\ \E j \in 1..Len(KeptTokens[i]) :
                  /\ KeptTokens[i][j] = "3."
                  /\ table.values[i][j] = Num(3)

\* ------------------------------------------------------------------------
\* C6
\* ------------------------------------------------------------------------

\* the number mant * 10^exp, mant not ending in 0
Decimal(mant, exp) ==
    [kind |-> "number", inf |-> FALSE, neg |-> FALSE, mant |-> mant, exp |-> exp]

\* the cells of the tokens the claim names
EmptyCellRule(token, cell) ==
    /\ (\A k \in 1..Len(token) : At(token, k) \in WhiteSpace)
           => cell = [kind |-> "string", text |-> ""]
    /\ token = "42" => cell = Decimal(42, 0)
    /\ token = "4.5" => cell = Decimal(45, -1)
    /\ token = "abc" => cell = [kind |-> "string", text |-> "abc"]

\* C6: in a returned row, the cell of a token that is empty or white space
\* is the empty string, not the number 0; the tokens "42" and "4.5" give
\* the numbers 42 and 4.5 and the token "abc" the string "abc".
C6_EmptyCellStaysEmpty == HasTable => CellsFollowTokens(EmptyCellRule)

\* a returned table holds a cell of an empty token, and the cells of "42",
\* "4.5" and "abc"
C6_Witness ==
    /\ HasTable
    /\ Len(table.values) = Len(KeptTokens)
    /\ \E i \in 1..Len(KeptTokens) : \E j \in 1..Len(KeptTokens[i]) :
           KeptTokens[i][j] = "" /\ table.values[i][j] = Str("")
    /\ \A token \in {"42", "4.5", "abc"} :
           \E i \in 1..Len(KeptTokens) : \E j \in 1..Len(KeptTokens[i]) :
               KeptTokens[i][j] = token

\* ------------------------------------------------------------------------
\* C7
\* ------------------------------------------------------------------------

\* generateHTML has returned
Rendered == pc \in {"mkdir", "writeFile", "done"}

\* the positions of s at which sub starts
Occurrences(s, sub) ==
    {i \in 1..(Len(s) - Len(sub) + 1) : Slice(s, i, i + Len(sub) - 1) = sub}

Contains(s, sub) == Occurrences(s, sub) # {}

RECURSIVE InOrder(_, _, _)
\* the pieces occur in s one after the other, from position from on
InOrder(s, pieces, from) ==
    IF Len(pieces) = 0 THEN TRUE
    ELSE LET at == {i \in Occurrences(s, pieces[1]) : i >= from}
         IN  /\ at # {}
             /\ LET first == CHOOSE i \in at : \A k \in at : i <= k
                IN  InOrder(s, Tail(pieces), first + Len(pieces[1]))

RECURSIVE Flatten(_)
Flatten(seqs) == IF Len(seqs) = 0 THEN << >> ELSE seqs[1] \o Flatten(Tail(seqs))

CellCount(values) == Len(Flatten(values))

\* the elements of the table in document order
ExpectedElements(headers, values) ==
    <<"<table>", "<tr>">>
    \o [i \in 1..Len(headers) |-> "<th>" \o headers[i] \o "</th>"]
    \o <<"</tr>">>
    \o Flatten([i \in 1..Len(values) |->
           <<"<tr>">>
           \o [j \in 1..Len(values[i]) |-> "<td>" \o CellText(values[i][j]) \o "</td>"]
           \o <<"</tr>">>])
    \o <<"</table>">>

\* C7: the document generateHTML returns has exactly one table element, whose
\* first row has one header cell per header, in order, followed by one row per
\* entry of values, in order, each with one cell per value, in order: nothing
\* is added, left out or reordered.
C7_OneTableOfHeadersAndRows ==
    Rendered =>
        /\ Cardinality(Occurrences(html, "<table")) = 1
        /\ Cardinality(Occurrences(html, "</table>")) = 1
        /\ Cardinality(Occurrences(html, "<tr")) = 1 + Len(table.values)
        /\ Cardinality(Occurrences(html, "<th")) = Len(table.headers)
        /\ Cardinality(Occurrences(html, "<td")) = CellCount(table.values)
        /\ InOrder(html, ExpectedElements(table.headers, table.values), 1)

\* ------------------------------------------------------------------------
\* C8
\* ------------------------------------------------------------------------

EscapeChar(c) ==
    CASE c = "&" -> "&amp;"
      [] c = "<" -> "&lt;"
      [] c = ">" -> "&gt;"
      [] OTHER -> c

RECURSIVE Escape(_)
Escape(s) == IF s = "" THEN "" ELSE EscapeChar(At(s, 1)) \o Escape(Slice(s, 2, Len(s)))

\* the texts of the headers and cells of the table
TableTexts ==
    {table.headers[i] : i \in 1..Len(table.headers)}
    \cup {CellText(table.values[i][j]) :
             i \in 1..Len(table.values), j \in 1..Len(table.headers)}

\* C8: the document generateHTML returns holds the text of every header and
\* cell with "<", ">" and "&" escaped; a value that contains "<script>" does
\* not appear in it as markup.
C8_TextsAreEscaped ==
    Rendered =>
        /\ \A i \in 1..Len(table.headers) :
               Contains(html, "<th>" \o Escape(table.headers[i]) \o "</th>")
        /\ \A i \in 1..Len(table.values) : \A j \in 1..Len(table.values[i]) :
               Contains(html, "<td>" \o Escape(CellText(table.values[i][j])) \o "</td>")
        /\ (\E t \in TableTexts : Contains(t, "<script>")) => ~Contains(html, "<script>")

\* ------------------------------------------------------------------------
\* C9
\* ------------------------------------------------------------------------

\* the steps of an invocation before saveHTMLToFile is called
BeforeSave == {"readFile", "pdfParse", "extract", "generate"}

\* C9: a step changes the output directory or a file in it only when
\* extractTable has returned the table and generateHTML the document of this
\* invocation; an invocation that cannot read the file, parse the PDF or find a
\* table ends at that step with the error thrown to the caller, and no step up
\* to there changes the output directory or a file in it.
C9_NothingStoredBeforeRendering ==
    [][ /\ (dirExists' # dirExists \/ files' # files) =>
               /\ pc \in {"mkdir", "writeFile"}
               /\ HasTable
               /\ html = GenerateHTMLOf(table.headers, table.values)
        /\ pc \in BeforeSave => UNCHANGED fsVars
        /\ (pc = "readFile" /\ pdfs[filePath] = Absent) =>
               pc' = "failed" /\ outcome'.kind = "thrown"
        /\ (pc = "pdfParse" /\ buffer = Corrupt) =>
               pc' = "failed" /\ outcome'.kind = "thrown"
        /\ (pc = "extract" /\ TabularLineCount(text) < 2) =>
               pc' = "failed" /\ outcome' = Thrown(NoTableMessage)
        /\ (pc' = "failed" /\ pc # "failed") =>
               pc \in BeforeSave /\ outcome'.kind = "thrown" /\ UNCHANGED fsVars
      ]_vars

\* an invocation has failed while the reports of earlier invocations exist
C9_Witness ==
    /\ pc = "failed"
    /\ dirExists
    /\ DOMAIN files # {}

\* ------------------------------------------------------------------------
\* C10
\* ------------------------------------------------------------------------

\* the path <output dir>/<filename>.html of the report of filePath
ReportPath == "/app/dashboards/" \o Basename(filePath, ".pdf") \o ".html"

\* C10: a call of saveHTMLToFile never fails, whether or not the directory
\* or the file exists; when it has returned, it has returned the path
\* <output dir>/<filename>.html and the file there holds exactly the content
\* of this call; the call changes no file of another name, and no other step
\* changes a file.
C10_LastWriteWins ==
    /\ [](pc = "mkdir" => ENABLED Mkdir)
    /\ [](pc = "writeFile" => ENABLED WriteFile)
    /\ [](pc = "done" =>
            /\ outcome = Returned(ReportPath)
            /\ dirExists
            /\ ReportPath \in DOMAIN files
            /\ files[ReportPath] = html)
    /\ [][ /\ pc \in {"mkdir", "writeFile"} => pc' \in {"writeFile", "done"}
           /\ \A p \in DOMAIN files :
                  /\ p \in DOMAIN files'
                  /\ (p # ReportPath \/ pc # "writeFile") => files'[p] = files[p]
           /\ DOMAIN files' \subseteq DOMAIN files \cup {ReportPath}
         ]_vars

\* a call has returned after it replaced a report of the same name, while a
\* report of another name is stored
C10_Witness ==
    /\ pc = "done"
    /\ filePath = "tmp/a.pdf"
    /\ pdfs["tmp/a.pdf"] # pdfs["uploads/a.pdf"]
    /\ files[ReportPath] = html
    /\ Cardinality(DOMAIN files) = 2

\* ------------------------------------------------------------------------
\* C11
\* ------------------------------------------------------------------------

\* the concurrent invocations that have been made
Invoked == {p \in Procs : inv[p].pc # "idle"}

\* every invocation made has ended, and at least two were made
AllEnded ==
    /\ Cardinality(Invoked) >= 2
    /\ \A p \in Invoked : inv[p].pc \in {"done", "failed"}

\* the names of the output files of the invocations are pairwise distinct
DistinctNames ==
    \A p \in Invoked : \A q \in Invoked :
        p # q => Basename(inv[p].filePath, ".pdf") # Basename(inv[q].filePath, ".pdf")

\* how the invocation on path ends when it runs alone
AloneOutcome(path) ==
    LET doc == pdfs[path]
    IN  IF doc.kind = "absent" THEN Thrown("ENOENT: no such file or directory")
        ELSE IF doc.kind = "corrupt" THEN Thrown("Invalid PDF structure")
        ELSE IF TabularLineCount(doc.text) < 2 THEN Thrown(NoTableMessage)
        ELSE Returned("/app/dashboards/" \o Basename(path, ".pdf") \o ".html")

\* the report of the document at path
AloneReport(path) ==
    LET t == TableOf(pdfs[path].text) IN GenerateHTMLOf(t.headers, t.values)

\* the invocation p has ended as it ends alone, its file holding its report
EndedAsAlone(p) ==
    /\ inv[p].outcome = AloneOutcome(inv[p].filePath)
    /\ inv[p].outcome.kind = "returned" =>
           /\ inv[p].outcome.value \in DOMAIN files
           /\ files[inv[p].outcome.value] = AloneReport(inv[p].filePath)

\* C11: when concurrent invocations whose output file names are pairwise
\* distinct have all ended, whatever their interleaving, each has ended as it
\* ends when run alone, none has failed because of another, and each output
\* file holds the complete report of its own document.
C11_ConcurrentRunsIndependent ==
    (AllEnded /\ DistinctNames) => \A p \in Invoked : EndedAsAlone(p)

\* two invocations with distinct names have both returned, with different
\* reports
C11_Witness ==
    /\ AllEnded
    /\ DistinctNames
    /\ \E p \in Invoked : \E q \in Invoked :
           /\ inv[p].pc = "done"
           /\ inv[q].pc = "done"
           /\ inv[p].html # inv[q].html
           /\ files[inv[p].outputPath] = inv[p].html
           /\ files[inv[q].outputPath] = inv[q].html

\* ------------------------------------------------------------------------
\* C12
\* ------------------------------------------------------------------------

\* the first line of t that is not blank and holds a separator
FirstTabularLine(t) ==
    LET spans == {sp \in LineSpans(t) : TabularShaped(Slice(t, sp[1] + 1, sp[2] - 1))}
        first == CHOOSE sp \in spans : \A other \in spans : sp[1] <= other[1]
    IN  Slice(t, first[1] + 1, first[2] - 1)

\* C12: on every text with at least 2 candidate lines of which none after the
\* first has the header's token count, extractTable returns without an error
\* the headers of the first candidate line and an empty list of rows.
C12_HeaderOnlyTable ==
    (Extracted /\ NoRowMatchesHeader) =>
        /\ outcome.kind # "thrown"
        /\ HasTable
        /\ table.headers = SplitCells(Trim(FirstTabularLine(text)), 1, 1)
        /\ table.values = << >>

\* a header-only table came back from three candidate lines
C12_Witness ==
    /\ Extracted
    /\ NoRowMatchesHeader
    /\ TabularLineCount(text) >= 3
    /\ HasTable
    /\ Len(table.headers) >= 2
    /\ table.values = << >>

\* ------------------------------------------------------------------------
\* C13
\* ------------------------------------------------------------------------

\* s neither begins nor ends with a white space character
IsTrimmed(s) ==
    s = "" \/ (At(s, 1) \notin WhiteSpace /\ At(s, Len(s)) \notin WhiteSpace)

\* C13 as claimed: in every table extractTable returns, no header label and
\* no string cell begins or ends with a white space character.
C13_TokensAreTrimmed ==
    (Extracted /\ HasTable) =>
        /\ \A j \in 1..Len(table.headers) : IsTrimmed(table.headers[j])
        /\ \A i \in 1..Len(table.values) : \A j \in 1..Len(table.values[i]) :
               table.values[i][j].kind = "string" => IsTrimmed(table.values[i][j].text)

\* the part of C13 about the cells of the rows
C13_StringCellsAreTrimmed ==
    (Extracted /\ HasTable) =>
        \A i \in 1..Len(table.values) : \A j \in 1..Len(table.values[i]) :
            table.values[i][j].kind = "string" => IsTrimmed(table.values[i][j].text)

\* ------------------------------------------------------------------------
\* C14
\* ------------------------------------------------------------------------

\* a comparison ends in this step with its report written into its tab
ReportWritten ==
    /\ compare.pc = "compare"
    /\ compare'.pc = "idle"
    /\ tabs'[compare.newTab].status = "written"

\* C14 as claimed: whenever handleComparePDFs writes the report into the tab
\* it opened, the report holds the answer of the /compare request of that
\* click (the answer the same step stores in comparisonResult), not the
\* comparisonResult the handler captured before the request.
C14_ReportHoldsAnswer ==
    [][ReportWritten => tabs'[compare.newTab].content = ReportOf(comparisonResult')]_vars

\* the report written is always the one of the state the handler captured
C14_ReportHoldsCapturedState ==
    [][ReportWritten =>
           tabs'[compare.newTab].content = ReportOf(compare.comparisonResult)]_vars

\* ------------------------------------------------------------------------
\* C15
\* ------------------------------------------------------------------------

Range(seq) == {seq[i] : i \in 1..Len(seq)}

\* the files of the form data of the upload that is in flight
InFlight == Range(upload.formData)

\* C15 as claimed: a file leaves selectedFiles only in a step that ends an
\* upload whose form data held the file; a file selected while the upload
\* was in flight is not discarded when the upload ends.
C15_OnlySentFilesRemoved ==
    [][\A f \in Range(selectedFiles) \ Range(selectedFiles') : f \in InFlight]_vars

====
